---------------------------- MODULE Spec2Model ----------------------------
(***************************************************************************)
(* A model of frontend/migrate_imports.py: the import-migration script.    *)
(*                                                                         *)
(* Text is a sequence of lexical atoms.  Each atom stands for a fixed run  *)
(* of characters ("use " is the four characters u,s,e,space; "CRLF" is     *)
(* the two bytes 0x0D 0x0A; "LF" is the byte 0x0A; "0xFF" is one byte that *)
(* is not valid UTF-8).  The patterns of the rule table are literal        *)
(* strings without regular-expression metacharacters, so re.search and     *)
(* re.sub are substring search and leftmost non-overlapping replacement.   *)
(* No atom is a substring of another atom's interior in a way that lets a  *)
(* pattern match start or end inside an atom, so matching on atoms is      *)
(* matching on characters for every text built from these atoms.           *)
(***************************************************************************)
EXTENDS Integers, Sequences, FiniteSets

VARIABLES
    rootExists,        \* src_dir.exists() at the start of main
    linesep,           \* os.linesep of the platform: "LF" or "CRLF"
    fs,                \* the files of the tree: path -> bytes (a sequence of atoms)
    orig,              \* fs as it was when the run began
    vanished,          \* paths removed by someone else during the run
    pc,                \* control position
    walkStack,         \* os.walk: directories still to visit
    rust_files,        \* find_rust_files: the list being built / main's list
    idx,               \* main: position of the for loop in rust_files
    content,           \* process_file: local
    original_content,  \* process_file: local
    changes_made,      \* process_file: local
    ri,                \* process_file: position inside the current rule loop
    updated_count,     \* main: local
    out,               \* what has been printed, in order
    writeOpens,        \* per path: how often it was opened for writing
    readOpens,         \* per path: how often it was opened for reading
    ret,               \* per processed position of rust_files: process_file's result
    failed             \* positions of rust_files whose processing raised

vars == <<rootExists, linesep, fs, orig, vanished, pc, walkStack, rust_files,
          idx, content, original_content, changes_made, ri, updated_count,
          out, writeOpens, readOpens, ret, failed>>

---------------------------------------------------------------------------
(* The rule table, lines 12-50.                                            *)

UI_REPLACEMENTS ==
    << << <<"use ", "crate::", "ui::", "shadcn::">>,
          <<"use ", "oxui::", "shadcn::">> >>,
       << <<"use ", "crate::", "ui::", "radix::">>,
          <<"use ", "oxui::", "radix::">> >>,
       << <<"use ", "crate::", "ui::", "custom::">>,
          <<"use ", "oxui::", "custom::">> >>,
       << <<"use ", "crate::", "ui::", "components::", "animated_grid">>,
          <<"use ", "oxui::", "components::", "animated_grid">> >>,
       << <<"use ", "crate::", "ui::", "components::", "confirm_dialog">>,
          <<"use ", "oxui::", "components::", "confirm_dialog">> >>,
       << <<"use ", "crate::", "ui::", "components::", "error">>,
          <<"use ", "oxui::", "components::", "error">> >>,
       << <<"use ", "crate::", "ui::", "components::", "form">>,
          <<"use ", "oxui::", "components::", "form">> >>,
       << <<"use ", "crate::", "ui::", "components::", "loading_overlay">>,
          <<"use ", "oxui::", "components::", "loading_overlay">> >>,
       << <<"use ", "crate::", "ui::", "components::", "portal_v2">>,
          <<"use ", "oxui::", "components::", "portal_v2">> >> >>

DOMAIN_REPLACEMENTS ==
    << << <<"use ", "crate::", "ui::", "components::", "tag">>,
          <<"use ", "ruxlog_shared::", "components::", "tag">> >>,
       << <<"use ", "crate::", "ui::", "components::", "user_avatar">>,
          <<"use ", "ruxlog_shared::", "components::", "user_avatar">> >> >>

\* A store table whose second replacement still contains its own pattern.
STORE_REPLACEMENTS_selfmatch ==
    << << <<"use ", "crate::", "store", "::">>,
          <<"use ", "ruxlog_shared::", "store", "::">> >>,
       << <<"from ", "crate::", "store">>,
          <<"from ", "crate::", "store", "::", "shared">> >> >>

STORE_REPLACEMENTS ==
    << << <<"use ", "crate::", "store", "::">>,
          <<"use ", "ruxlog_shared::", "store", "::">> >>,
       << <<"from ", "crate::", "store">>,
          <<"from ", "ruxlog_shared::", "store">> >> >>

AllRules == UI_REPLACEMENTS \o DOMAIN_REPLACEMENTS \o STORE_REPLACEMENTS

RuleSet == {AllRules[i] : i \in 1..Len(AllRules)}

---------------------------------------------------------------------------
(* re.search and re.sub on literal patterns.                               *)

MatchAt(pat, s, i) ==
    /\ i + Len(pat) - 1 <= Len(s)
    /\ \A k \in 1..Len(pat) : s[i + k - 1] = pat[k]

\* re.search(old_pattern, content) is not None
Search(pat, s) == \E i \in 1..Len(s) : MatchAt(pat, s, i)

RECURSIVE SubFrom(_, _, _, _)
SubFrom(pat, rep, s, i) ==
    IF i > Len(s) THEN <<>>
    ELSE IF MatchAt(pat, s, i)
         THEN rep \o SubFrom(pat, rep, s, i + Len(pat))
         ELSE <<s[i]>> \o SubFrom(pat, rep, s, i + 1)

\* re.sub(old_pattern, new_pattern, content): every non-overlapping match,
\* leftmost first.
Sub(pat, rep, s) == SubFrom(pat, rep, s, 1)

\* The number of non-overlapping matches re.sub replaces.
RECURSIVE CountFrom(_, _, _)
CountFrom(pat, s, i) ==
    IF i > Len(s) THEN 0
    ELSE IF MatchAt(pat, s, i) THEN 1 + CountFrom(pat, s, i + Len(pat))
         ELSE CountFrom(pat, s, i + 1)

\* One iteration that records the rule once per replaced occurrence.
ApplyRule_perOccurrence(st, rule) ==
    IF Search(rule[1], st.content)
    THEN [content |-> Sub(rule[1], rule[2], st.content),
          changes_made |->
              st.changes_made \o
              [k \in 1..CountFrom(rule[1], st.content, 1) |-> rule]]
    ELSE st

\* One iteration of a rule loop, lines 63-66 (69-72, 75-78): st is the pair
\* of locals (content, changes_made).
ApplyRule(st, rule) ==
    IF Search(rule[1], st.content)
    THEN [content |-> Sub(rule[1], rule[2], st.content),
          changes_made |-> Append(st.changes_made, rule)]
    ELSE st

RECURSIVE ApplyRules(_, _)
ApplyRules(st, rules) ==
    IF rules = <<>> THEN st
    ELSE ApplyRules(ApplyRule(st, Head(rules)), Tail(rules))

\* The three loops of process_file, lines 59-78, on the content read.
Substitute(text) ==
    ApplyRules(
        ApplyRules(
            ApplyRules([content |-> text, changes_made |-> <<>>],
                       UI_REPLACEMENTS),
            DOMAIN_REPLACEMENTS),
        STORE_REPLACEMENTS)

---------------------------------------------------------------------------
(* Bounds.                                                                 *)

\* Input text of the substitution engine: at most MaxSegs segments.
MaxSegs == 2

\* Atoms that occur in input text next to whole patterns and replacements.
FillerAtoms == {"use ", "from ", "crate::", "ui::", "store", "::", ";", "LF"}

Segments ==
    {r[1] : r \in RuleSet}
        \cup {UI_REPLACEMENTS[1][2], STORE_REPLACEMENTS[1][2]}
        \cup {<<a>> : a \in FillerAtoms}

RECURSIVE TextsUpTo(_)
TextsUpTo(n) ==
    IF n = 0 THEN {<<>>}
    ELSE LET shorter == TextsUpTo(n - 1)
         IN shorter \cup {t \o s : t \in shorter, s \in Segments}

ApplyInputs == TextsUpTo(MaxSegs)

---------------------------------------------------------------------------
(* The substitution engine alone: process_file between its read and its    *)
(* comparison, one loop iteration per step.                                *)

\* A tree without files.
EmptyFs == [p \in {} |-> <<>>]

InitApply ==
    /\ content \in ApplyInputs
    /\ original_content = content
    /\ changes_made = <<>>
    /\ pc = "ui"
    /\ ri = 1
    /\ rootExists = TRUE
    /\ linesep = "LF"
    /\ fs = EmptyFs
    /\ orig = EmptyFs
    /\ vanished = {}
    /\ walkStack = <<>>
    /\ rust_files = <<>>
    /\ idx = 0
    /\ updated_count = 0
    /\ out = <<>>
    /\ writeOpens = EmptyFs
    /\ readOpens = EmptyFs
    /\ ret = <<>>
    /\ failed = {}

engineFrame ==
    UNCHANGED <<rootExists, linesep, fs, orig, vanished, walkStack,
                rust_files, idx, original_content, updated_count, out,
                writeOpens, readOpens, failed>>

\* One iteration of the loop over `table`; after the last one control
\* passes to `after`.
LoopStep(here, table, after) ==
    /\ pc = here
    /\ ri <= Len(table)
    /\ LET st == ApplyRule([content |-> content,
                            changes_made |-> changes_made], table[ri])
       IN /\ content' = st.content
          /\ changes_made' = st.changes_made
    /\ IF ri = Len(table)
       THEN pc' = after /\ ri' = 1
       ELSE pc' = here /\ ri' = ri + 1

\* lines 63-66
ApplyUI ==
    /\ LoopStep("ui", UI_REPLACEMENTS, "domain")
    /\ ret' = ret
    /\ engineFrame

\* lines 69-72
ApplyDomain ==
    /\ LoopStep("domain", DOMAIN_REPLACEMENTS, "store")
    /\ ret' = ret
    /\ engineFrame

\* lines 75-78
ApplyStore ==
    /\ LoopStep("store", STORE_REPLACEMENTS, "compare")
    /\ ret' = ret
    /\ engineFrame

\* The condition of line 81 taken as always true.
Changed_always(new, old) == TRUE

\* line 81: content != original_content
Changed(new, old) == new # old

\* lines 81-89 without the write: the result of the comparison.
Compare ==
    /\ pc = "compare"
    /\ pc' = "returned"
    /\ ret' = Append(ret, Changed(content, original_content))
    /\ UNCHANGED <<content, changes_made, ri>>
    /\ engineFrame

NextApply == ApplyUI \/ ApplyDomain \/ ApplyStore \/ Compare

SpecApply == InitApply /\ [][NextApply]_vars

---------------------------------------------------------------------------
(* Properties of the substitution engine.                                  *)

\* The text rule k meets, computed with re.sub alone: the original text
\* after the substitutions of rules 1..k-1.
RECURSIVE TextBefore(_, _)
TextBefore(text, k) ==
    IF k <= 1 THEN text
    ELSE LET t == TextBefore(text, k - 1)
         IN Sub(AllRules[k - 1][1], AllRules[k - 1][2], t)

\* The rules of positions 1..n that match the text they meet, in order.
RECURSIVE FiredUpTo(_, _)
FiredUpTo(text, n) ==
    IF n = 0 THEN <<>>
    ELSE LET before == FiredUpTo(text, n - 1)
         IN IF Search(AllRules[n][1], TextBefore(text, n))
            THEN Append(before, AllRules[n])
            ELSE before

NoPatternIn(text) == \A r \in RuleSet : ~Search(r[1], text)

\* C1: after one pass over the whole rule table the content holds no match
\* of any pattern, and a second pass over it changes nothing and fires no
\* rule.
C1_Idempotent ==
    pc = "returned" =>
        /\ NoPatternIn(content)
        /\ Substitute(content) = [content |-> content, changes_made |-> <<>>]

\* C1 witness: a pass that replaced matches of two rules has finished.
C1_Witness ==
    /\ pc = "returned"
    /\ Len(changes_made) >= 2
    /\ content # original_content

\* C6: the fired list holds exactly the rules whose pattern matched the
\* content they were applied to, once each, in table order; content without
\* any pattern gives an empty list and unchanged content.
C6_FiredList ==
    pc = "returned" =>
        /\ changes_made = FiredUpTo(original_content, Len(AllRules))
        /\ \A i, j \in 1..Len(changes_made) :
               changes_made[i] = changes_made[j] => i = j
        /\ NoPatternIn(original_content) =>
               (changes_made = <<>> /\ content = original_content)

\* C6 witness: one rule replaced two occurrences and is listed once, while
\* another rule matched nothing.
C6_Witness ==
    /\ pc = "returned"
    /\ Len(changes_made) = 1
    /\ CountFrom(changes_made[1][1], original_content, 1) = 2

---------------------------------------------------------------------------
(* File and directory names.  A name is a sequence of name atoms; "." is   *)
(* the dot character.  A path is the sequence of names from root_dir down. *)

StartsWith(name, prefix) ==
    /\ Len(prefix) <= Len(name)
    /\ SubSeq(name, 1, Len(prefix)) = prefix

EndsWith(name, suffix) ==
    /\ Len(suffix) <= Len(name)
    /\ SubSeq(name, Len(name) - Len(suffix) + 1, Len(name)) = suffix

\* A filter that skips hidden directories only.
DirKept_hiddenOnly(d) == ~StartsWith(d, <<".">>)

\* line 101: not d.startswith(".") and d != "target"
DirKept(d) == ~StartsWith(d, <<".">>) /\ d # <<"target">>

\* line 104: file.endswith(".rs") and not file.startswith(".")
FileKept(file) == EndsWith(file, <<".", "rs">>) /\ ~StartsWith(file, <<".">>)

Parent(path) == SubSeq(path, 1, Len(path) - 1)

BaseName(path) == path[Len(path)]

\* The directories of a tree: root_dir (the empty path) and every directory
\* that holds a file, directly or not.
DirsOf(tree) ==
    {<<>>} \cup
        UNION {{SubSeq(p, 1, k) : k \in 0..(Len(p) - 1)} : p \in DOMAIN tree}

\* The order in which a directory listing comes: one fixed order per set.
RECURSIVE Listing(_)
Listing(S) ==
    IF S = {} THEN <<>>
    ELSE LET x == CHOOSE y \in S : TRUE
         IN <<x>> \o Listing(S \ {x})

---------------------------------------------------------------------------
(* find_rust_files, lines 96-107.                                          *)

walkFrame ==
    UNCHANGED <<rootExists, linesep, fs, orig, vanished, idx, content,
                original_content, changes_made, ri, updated_count, out,
                writeOpens, readOpens, ret, failed>>

\* One iteration of the loop over os.walk (lines 99-105): the next directory
\* is listed, its subdirectories are pruned, its files are filtered.
WalkDir ==
    /\ pc = "walk"
    /\ walkStack # <<>>
    /\ LET root == Head(walkStack)
           dirs == Listing({d \in DirsOf(fs) : d # <<>> /\ Parent(d) = root})
           files == Listing({f \in DOMAIN fs : Parent(f) = root})
           KeepDir(d) == DirKept(BaseName(d))
           KeepFile(f) == FileKept(BaseName(f))
       IN /\ walkStack' = SelectSeq(dirs, KeepDir) \o Tail(walkStack)
          /\ rust_files' = rust_files \o SelectSeq(files, KeepFile)
    /\ pc' = "walk"
    /\ walkFrame

\* line 107
WalkReturn ==
    /\ pc = "walk"
    /\ walkStack = <<>>
    /\ pc' = "walked"
    /\ UNCHANGED <<walkStack, rust_files>>
    /\ walkFrame

---------------------------------------------------------------------------
(* find_rust_files alone, over bounded trees.                              *)

\* Directories nest at most MaxDepth deep below root_dir.
MaxDepth == 2

\* A tree of the walk holds at most MaxWalkFiles files.
MaxWalkFiles == 2

DirNames == {<<"ui">>, <<".", "git">>, <<"target">>}

FileNames == {<<"mod", ".", "rs">>, <<".", "env", ".", "rs">>,
              <<"notes", ".", "md">>}

RECURSIVE DirPathsUpTo(_)
DirPathsUpTo(n) ==
    IF n = 0 THEN {<<>>}
    ELSE LET shorter == DirPathsUpTo(n - 1)
         IN shorter \cup {Append(d, name) : d \in shorter, name \in DirNames}

\* The subsets of S with at most n elements.
RECURSIVE SubsetsUpTo(_, _)
SubsetsUpTo(S, n) ==
    IF n = 0 THEN {{}}
    ELSE LET smaller == SubsetsUpTo(S, n - 1)
         IN smaller \cup {sub \cup {x} : sub \in smaller, x \in S}

WalkSlots == {Append(d, name) : d \in DirPathsUpTo(MaxDepth), name \in FileNames}

InitWalk ==
    /\ \E paths \in SubsetsUpTo(WalkSlots, MaxWalkFiles) :
           fs = [p \in paths |-> <<>>]
    /\ orig = fs
    /\ rootExists = TRUE
    /\ linesep = "LF"
    /\ vanished = {}
    /\ pc = "walk"
    /\ walkStack = << <<>> >>
    /\ rust_files = <<>>
    /\ idx = 0
    /\ content = <<>>
    /\ original_content = <<>>
    /\ changes_made = <<>>
    /\ ri = 1
    /\ updated_count = 0
    /\ out = <<>>
    /\ writeOpens = [p \in DOMAIN fs |-> 0]
    /\ readOpens = [p \in DOMAIN fs |-> 0]
    /\ ret = <<>>
    /\ failed = {}

NextWalk == WalkDir \/ WalkReturn

SpecWalk == InitWalk /\ [][NextWalk]_vars

\* A path lies inside a hidden directory or a directory named target.
InExcludedDir(path) ==
    \E k \in 1..(Len(path) - 1) :
        StartsWith(path[k], <<".">>) \/ path[k] = <<"target">>

\* C7: no candidate lies inside a hidden directory or a directory named
\* target, at any depth; every candidate is a file of the tree whose own
\* name ends in .rs and does not start with a dot.
C7_DirectoryExclusion ==
    \A i \in 1..Len(rust_files) :
        /\ rust_files[i] \in DOMAIN fs
        /\ ~InExcludedDir(rust_files[i])
        /\ EndsWith(BaseName(rust_files[i]), <<".", "rs">>)
        /\ ~StartsWith(BaseName(rust_files[i]), <<".">>)

\* C7 witness: the walk is over, it found a candidate, and the tree holds a
\* .rs file below a directory named target that lies inside a kept directory.
C7_Witness ==
    /\ pc = "walked"
    /\ rust_files # <<>>
    /\ \E p \in DOMAIN fs :
           /\ Len(p) = 3
           /\ DirKept(p[1])
           /\ p[2] = <<"target">>
           /\ FileKept(BaseName(p))

---------------------------------------------------------------------------
(* Text files: open(..., "r"/"w", encoding="utf-8"), lines 56-57, 82-83.   *)

\* The bytes are valid UTF-8.
Decodable(bytes) == \A i \in 1..Len(bytes) : bytes[i] # "0xFF"

\* f.read() of a text-mode file: universal newlines, CRLF is read as LF.
Decode(bytes) ==
    [i \in 1..Len(bytes) |-> IF bytes[i] = "CRLF" THEN "LF" ELSE bytes[i]]

\* f.write() to a text-mode file: LF is written as os.linesep.
Encode(text, sep) ==
    [i \in 1..Len(text) |-> IF text[i] = "LF" THEN sep ELSE text[i]]

ProperPrefixes(bytes) == {SubSeq(bytes, 1, n) : n \in 0..(Len(bytes) - 1)}

print(kind, path, info) ==
    out' = Append(out, [kind |-> kind, path |-> path, info |-> info])

---------------------------------------------------------------------------
(* main and process_file.                                                  *)

\* The file process_file is working on.
Current == rust_files[idx]

\* A check that never finds the directory missing.
SrcDirMissing_never == FALSE

\* line 116: not src_dir.exists()
SrcDirMissing == ~rootExists

\* Every processed file is counted.
NewCount_always(count, result) == count + 1

\* lines 134-135: if process_file(file_path): updated_count += 1
NewCount(count, result) == IF result THEN count + 1 ELSE count

\* process_file returns `result` to the loop of main, lines 133-136.
Return(result) ==
    /\ ret' = Append(ret, result)
    /\ updated_count' = NewCount(updated_count, result)
    /\ idx' = idx + 1
    /\ pc' = "loop"

\* An exception that leaves process_file and ends main.
OnException_propagate ==
    /\ failed' = failed \cup {idx}
    /\ pc' = "aborted"
    /\ UNCHANGED <<out, ret, updated_count, idx>>

\* lines 91-93: except Exception: print the error, return False.
OnException ==
    /\ failed' = failed \cup {idx}
    /\ print("error", Current, <<>>)
    /\ Return(FALSE)

\* lines 116-118
RootMissing ==
    /\ pc = "start"
    /\ SrcDirMissing
    /\ print("root_missing", <<>>, <<>>)
    /\ pc' = "done"
    /\ UNCHANGED <<rootExists, linesep, fs, orig, vanished, walkStack,
                   rust_files, idx, content, original_content, changes_made,
                   ri, updated_count, writeOpens, readOpens, ret, failed>>

\* lines 120-127: the banner, then find_rust_files(src_dir) is entered.
StartScan ==
    /\ pc = "start"
    /\ ~SrcDirMissing
    /\ print("banner", <<>>, <<>>)
    /\ walkStack' = IF rootExists THEN << <<>> >> ELSE <<>>
    /\ rust_files' = <<>>
    /\ pc' = "walk"
    /\ UNCHANGED <<rootExists, linesep, fs, orig, vanished, idx, content,
                   original_content, changes_made, ri, updated_count,
                   writeOpens, readOpens, ret, failed>>

\* lines 128-132
Found ==
    /\ pc = "walked"
    /\ print("found", <<>>, Len(rust_files))
    /\ updated_count' = 0
    /\ idx' = 1
    /\ pc' = "loop"
    /\ UNCHANGED <<rootExists, linesep, fs, orig, vanished, walkStack,
                   rust_files, content, original_content, changes_made, ri,
                   writeOpens, readOpens, ret, failed>>

\* line 133 with a file left: process_file(file_path) is called.
NextFile ==
    /\ pc = "loop"
    /\ idx <= Len(rust_files)
    /\ pc' = "read"
    /\ UNCHANGED <<rootExists, linesep, fs, orig, vanished, walkStack,
                   rust_files, idx, content, original_content, changes_made,
                   ri, updated_count, out, writeOpens, readOpens, ret, failed>>

\* lines 56-60: the file is opened and read.
Read ==
    /\ pc = "read"
    /\ Current \in DOMAIN fs
    /\ Decodable(fs[Current])
    /\ readOpens' = [readOpens EXCEPT ![Current] = @ + 1]
    /\ content' = Decode(fs[Current])
    /\ original_content' = content'
    /\ changes_made' = <<>>
    /\ pc' = "substitute"
    /\ UNCHANGED <<rootExists, linesep, fs, orig, vanished, walkStack,
                   rust_files, idx, ri, updated_count, out, writeOpens, ret,
                   failed>>

\* lines 56-57 raising: the file is gone (FileNotFoundError), may not be
\* opened (PermissionError), or holds bytes that are not UTF-8
\* (UnicodeDecodeError).
ReadFails ==
    /\ pc = "read"
    /\ \/ /\ Current \notin DOMAIN fs
          /\ readOpens' = readOpens
       \/ /\ Current \in DOMAIN fs
          /\ readOpens' = readOpens
       \/ /\ Current \in DOMAIN fs
          /\ ~Decodable(fs[Current])
          /\ readOpens' = [readOpens EXCEPT ![Current] = @ + 1]
    /\ OnException
    /\ UNCHANGED <<rootExists, linesep, fs, orig, vanished, walkStack,
                   rust_files, content, original_content, changes_made, ri,
                   writeOpens>>

\* lines 62-81 and 89: the three rule loops, then the comparison; an
\* unchanged file returns False.
Rewrite ==
    /\ pc = "substitute"
    /\ LET st == Substitute(content)
       IN /\ content' = st.content
          /\ changes_made' = st.changes_made
          /\ IF Changed(st.content, original_content)
             THEN /\ pc' = "write"
                  /\ UNCHANGED <<ret, updated_count, idx>>
             ELSE Return(FALSE)
    /\ UNCHANGED <<rootExists, linesep, fs, orig, vanished, walkStack,
                   rust_files, original_content, ri, out, writeOpens,
                   readOpens, failed>>

\* lines 82-87: the file is opened for writing, which creates it when it is
\* not there, the content is written, the change is printed.
WriteBack ==
    /\ pc = "write"
    /\ writeOpens' = [writeOpens EXCEPT ![Current] = @ + 1]
    /\ fs' = [p \in DOMAIN fs \cup {Current} |->
                 IF p = Current THEN Encode(content, linesep) ELSE fs[p]]
    /\ print("updated", Current, changes_made)
    /\ Return(TRUE)
    /\ UNCHANGED <<rootExists, linesep, orig, vanished, walkStack, rust_files,
                   content, original_content, changes_made, ri, readOpens,
                   failed>>

\* line 82 raising: the file may not be opened for writing; it is left as
\* it is.
WriteOpenFails ==
    /\ pc = "write"
    /\ OnException
    /\ UNCHANGED <<rootExists, linesep, fs, orig, vanished, walkStack,
                   rust_files, content, original_content, changes_made, ri,
                   writeOpens, readOpens>>

\* line 83 (or the close of line 82's block) raising: the open has emptied
\* the file, and only a part of the content has reached it.
WriteFails ==
    /\ pc = "write"
    /\ writeOpens' = [writeOpens EXCEPT ![Current] = @ + 1]
    /\ \E part \in ProperPrefixes(Encode(content, linesep)) :
           fs' = [p \in DOMAIN fs \cup {Current} |->
                     IF p = Current THEN part ELSE fs[p]]
    /\ OnException
    /\ UNCHANGED <<rootExists, linesep, orig, vanished, walkStack, rust_files,
                   content, original_content, changes_made, ri, readOpens>>

\* lines 138-150: the loop is over, the summary is printed.
Summary ==
    /\ pc = "loop"
    /\ idx > Len(rust_files)
    /\ print("summary", <<>>, <<updated_count, Len(rust_files)>>)
    /\ pc' = "done"
    /\ UNCHANGED <<rootExists, linesep, fs, orig, vanished, walkStack,
                   rust_files, idx, content, original_content, changes_made,
                   ri, updated_count, writeOpens, readOpens, ret, failed>>

\* Someone else removes the file process_file is about to read, or is
\* about to write back.
Vanish ==
    /\ pc \in {"read", "write"}
    /\ Current \in DOMAIN fs
    /\ fs' = [p \in DOMAIN fs \ {Current} |-> fs[p]]
    /\ vanished' = vanished \cup {Current}
    /\ UNCHANGED <<rootExists, linesep, orig, pc, walkStack, rust_files, idx,
                   content, original_content, changes_made, ri, updated_count,
                   out, writeOpens, readOpens, ret, failed>>

---------------------------------------------------------------------------
(* A run of main over bounded trees.                                       *)

\* A tree of a run holds at most MaxFiles files.
MaxFiles == 2

\* The places a file of a run may be at: three candidates and one file
\* inside a hidden directory.
RunSlots ==
    { << <<"mod", ".", "rs">> >>,
      << <<"main", ".", "rs">> >>,
      << <<"ui">>, <<"mod", ".", "rs">> >>,
      << <<".", "git">>, <<"mod", ".", "rs">> >> }

RunContents ==
    { <<";", "LF">>,
      <<"from ", "crate::", "store", "LF">>,
      <<"from ", "crate::", "store", "CRLF">>,
      <<"from ", "crate::", "store", "0xFF">> }

Init ==
    /\ rootExists \in BOOLEAN
    /\ linesep \in {"LF", "CRLF"}
    /\ IF rootExists
       THEN \E paths \in SubsetsUpTo(RunSlots, MaxFiles) :
                fs \in [paths -> RunContents]
       ELSE fs = EmptyFs
    /\ orig = fs
    /\ vanished = {}
    /\ pc = "start"
    /\ walkStack = <<>>
    /\ rust_files = <<>>
    /\ idx = 0
    /\ content = <<>>
    /\ original_content = <<>>
    /\ changes_made = <<>>
    /\ ri = 1
    /\ updated_count = 0
    /\ out = <<>>
    /\ writeOpens = [p \in DOMAIN fs |-> 0]
    /\ readOpens = [p \in DOMAIN fs |-> 0]
    /\ ret = <<>>
    /\ failed = {}

Next ==
    \/ RootMissing
    \/ StartScan
    \/ WalkDir
    \/ WalkReturn
    \/ Found
    \/ NextFile
    \/ Read
    \/ ReadFails
    \/ Rewrite
    \/ WriteBack
    \/ WriteOpenFails
    \/ WriteFails
    \/ Summary
    \/ Vanish

Spec == Init /\ [][Next]_vars

---------------------------------------------------------------------------
(* Properties of a run.                                                    *)

\* The positions of main and of process_file; at each of them but "done" a
\* step of the program is possible.
Positions ==
    {"start", "walk", "walked", "loop", "read", "substitute", "write", "done"}

\* The positions of out that report an error for `path`.
ErrorsFor(path) ==
    {i \in 1..Len(out) : out[i].kind = "error" /\ out[i].path = path}

Updated == {k \in 1..Len(ret) : ret[k]}

Finished == pc = "done" /\ rootExists

\* C2: a failure while processing a file is reported for that file, the
\* file is not counted as updated, every other enumerated file is still
\* read once and returns once, and the run goes on until the summary, which
\* is the last thing printed.
C2_FaultIsolation ==
    /\ pc \in Positions
    /\ \A k \in failed :
           /\ k <= Len(ret)
           /\ ~ret[k]
           /\ Cardinality(ErrorsFor(rust_files[k])) = 1
    /\ Finished =>
           /\ Len(ret) = Len(rust_files)
           /\ out[Len(out)].kind = "summary"
           /\ \A k \in 1..Len(rust_files) :
                  k \notin failed =>
                      /\ readOpens[rust_files[k]] = 1
                      /\ ErrorsFor(rust_files[k]) = {}

\* C2 witness: the first of two files could not be decoded, the second was
\* updated after it, and the run has printed its summary.
C2_Witness ==
    /\ Finished
    /\ Len(rust_files) = 2
    /\ failed = {1}
    /\ ~Decodable(orig[rust_files[1]])
    /\ ret = <<FALSE, TRUE>>

\* C3: a processed file that nobody else removed is reported as updated if
\* and only if its bytes differ from the bytes it had before the run.
C3_UpdatedIffDiffers ==
    \A k \in 1..Len(ret) :
        rust_files[k] \notin vanished =>
            (ret[k] <=> fs[rust_files[k]] # orig[rust_files[k]])

\* C4: a file is opened for writing at most once, and only when the
\* substituted content differs from the content read; a file without any
\* pattern is read, never written, left as it is, and not counted.
C4_WriteOnlyOnChange ==
    /\ \A p \in DOMAIN orig :
           /\ writeOpens[p] <= 1
           /\ readOpens[p] <= 1
           /\ writeOpens[p] = 1 =>
                  /\ Decodable(orig[p])
                  /\ Substitute(Decode(orig[p])).content # Decode(orig[p])
    /\ \A k \in 1..Len(ret) :
           LET f == rust_files[k]
           IN (Decodable(orig[f]) /\ NoPatternIn(Decode(orig[f]))) =>
                  /\ writeOpens[f] = 0
                  /\ ~ret[k]
                  /\ k \notin failed => readOpens[f] = 1
                  /\ f \notin vanished => fs[f] = orig[f]

\* C4 witness: of two processed files, one without any pattern was read
\* and not written, the other was written once.
C4_Witness ==
    /\ Finished
    /\ Len(ret) = 2
    /\ failed = {}
    /\ \E k \in 1..2 :
           /\ NoPatternIn(Decode(orig[rust_files[k]]))
           /\ readOpens[rust_files[k]] = 1
           /\ writeOpens[rust_files[k]] = 0
           /\ writeOpens[rust_files[3 - k]] = 1

\* C5: the bytes written for an updated file are the result of applying the
\* whole rule table, in order, to the bytes the file had before.
C5_WrittenIsSubstituted ==
    \A k \in 1..Len(ret) :
        ret[k] =>
            fs[rust_files[k]] = Substitute(orig[rust_files[k]]).content

\* C8: when the root directory does not exist the run prints the missing
\* path and ends; it enumerates nothing and opens no file.
C8_MissingRoot ==
    ~rootExists =>
        /\ pc \in {"start", "done"}
        /\ walkStack = <<>>
        /\ rust_files = <<>>
        /\ ret = <<>>
        /\ fs = orig
        /\ \A p \in DOMAIN orig : readOpens[p] = 0 /\ writeOpens[p] = 0
        /\ pc = "done" =>
               out = <<[kind |-> "root_missing", path |-> <<>>, info |-> <<>>]>>

\* C8 witness: a run without root directory has ended.
C8_Witness == ~rootExists /\ pc = "done" /\ Len(out) = 1

\* C9 as stated: every count of the summary line counts only the files
\* that were processed without failure.
C9_OnlySuccessfulCounted ==
    Finished =>
        /\ out[Len(out)].info[1] = Cardinality(Updated)
        /\ Updated \cap failed = {}
        /\ out[Len(out)].info[2] = Len(rust_files) - Cardinality(failed)

\* C9 amended: the updated count of the summary counts exactly the files
\* reported as updated, none of which failed; every failure was printed
\* before the summary; the total of the summary is the number of enumerated
\* files, failed ones included.
C9_SummaryCounts ==
    Finished =>
        /\ out[Len(out)].kind = "summary"
        /\ out[Len(out)].info[1] = Cardinality(Updated)
        /\ Updated \cap failed = {}
        /\ \A k \in failed :
               \E i \in ErrorsFor(rust_files[k]) : i < Len(out)
        /\ out[Len(out)].info[2] = Len(rust_files)

\* C9 witness: a run in which one file failed and another was updated has
\* printed its summary.
C9_Witness ==
    /\ Finished
    /\ failed # {}
    /\ Updated # {}

\* C10: the program neither creates nor deletes nor renames a file: the
\* paths of the tree are those it had before, less the ones somebody else
\* removed.
C10_SamePaths == DOMAIN fs = DOMAIN orig \ vanished

===========================================================================
